---------------------------- MODULE Spec2Model ----------------------------
(***************************************************************************)
(* Moist-air conversions of dewpoint.py (Magnus formula: dew point,        *)
(* relative humidity, temperature, and the command line front end) and of  *)
(* wetbulb.py (Davies-Jones wet-bulb regimes).                             *)
(*                                                                         *)
(* Numbers.  A Python float is carried in one of two ways:                 *)
(*   Fx  an integer count of millionths (25.14 is 25140000); used for      *)
(*       temperatures, logarithms and everything of moderate size;         *)
(*   Lg  a record [s, l]: the sign s and the natural logarithm l (an Fx)   *)
(*       of the magnitude; used for pressures and humidities, which        *)
(*       dewpoint.py only multiplies and divides and which range from      *)
(*       1e-300 to 1e300.  s = 0 is the float 0.0.                         *)
(* math.pow(math.e, x) takes an Fx to an Lg and math.log takes an Lg to an *)
(* Fx; the rounding between them (about 1e-14 in the code) is below the    *)
(* resolution of the model.  An exception is a result whose exc field      *)
(* names the Python exception type.                                        *)
(***************************************************************************)
EXTENDS Integers, Sequences, FiniteSets, TLC

VARIABLES dew, cli, wet

vars == <<dew, cli, wet>>

---------------------------------------------------------------------------
(* Fixed-point arithmetic *)

Scale == 1000000

\* Fx results saturate at +-1000.0; nothing larger is ever used as a value:
\* math.pow overflows above 709.78 and underflows to 0.0 below -745.13.
Cap == 1000 * Scale

Abs(a) == IF a < 0 THEN -a ELSE a

Sgn(a) == IF a < 0 THEN -1 ELSE IF a > 0 THEN 1 ELSE 0

Min(a, b) == IF a < b THEN a ELSE b

\* An assignment  name = v  followed by the statements F that use it.
With(v, F(_)) == F(v)

\* 2^n
RECURSIVE Pow2(_)
Pow2(n) == IF n = 0 THEN 1 ELSE 2 * Pow2(n - 1)

\* q + d saturating at Cap
SatAdd(q, d) == IF q >= Cap \/ d >= Cap - q THEN Cap ELSE q + d

\* q * k saturating at Cap, q >= 0, k >= 1
SatMul(q, k) == IF q > Cap \div k THEN Cap ELSE q * k

\* <<quotient, remainder>> of r * 2^m by c for 0 <= r < c: doubling by
\* halves, so that no intermediate exceeds 2*c.
RECURSIVE ShiftMod(_, _, _)
ShiftMod(r, m, c) ==
    IF m = 0 THEN <<0, r>>
    ELSE IF m = 1 THEN (IF r >= c - r THEN <<1, r - (c - r)>> ELSE <<0, 2 * r>>)
    ELSE With(ShiftMod(r, m \div 2, c), LAMBDA lo :
         With(ShiftMod(lo[2], m - m \div 2, c), LAMBDA hi :
         <<SatAdd(SatMul(lo[1], Pow2(m - m \div 2)), hi[1]), hi[2]>>))

\* <<quotient, remainder>> of a*b by c for 0 <= a < c and 0 <= b < 2^n:
\* b is split into its high and low halves.
RECURSIVE MulDivNat(_, _, _, _)
MulDivNat(a, b, n, c) ==
    IF b = 0 THEN <<0, 0>>
    ELSE IF b = 1 THEN <<0, a>>
    ELSE With(n \div 2, LAMBDA m :
         With(MulDivNat(a, b \div Pow2(m), n - m, c), LAMBDA hi :
         With(ShiftMod(hi[2], m, c), LAMBDA sh :
         With(MulDivNat(a, b % Pow2(m), m, c), LAMBDA lo :
         With(IF sh[2] >= c - lo[2] THEN 1 ELSE 0, LAMBDA cy :
         <<SatAdd(SatAdd(SatMul(hi[1], Pow2(m)), sh[1]), lo[1] + cy),
           IF cy = 1 THEN sh[2] - (c - lo[2]) ELSE sh[2] + lo[2]>>)))))

\* a*b/c rounded to nearest, c # 0.
MulDiv(a, b, c) ==
    With(Abs(a), LAMBDA A :
    With(Abs(b), LAMBDA B :
    With(Abs(c), LAMBDA C :
    With(MulDivNat(A % C, B, 31, C), LAMBDA h :
    With(IF A \div C = 0 THEN 0 ELSE SatMul(B, A \div C), LAMBDA whole :
    Sgn(a) * Sgn(b) * Sgn(c)
        * SatAdd(SatAdd(whole, h[1]), IF h[2] >= C - h[2] THEN 1 ELSE 0))))))

Mul(a, b) == MulDiv(a, b, Scale)

Div(a, b) == MulDiv(a, Scale, b)

\* k * ln 2, ln 2 = 0.693147181
KLn2(k) == k * 693147 + MulDiv(k, 181, 1000)

\* atanh(y) = y + y^3/3 + y^5/5 + ... for 0 <= y <= 1/3
RECURSIVE AtanhSeries(_, _, _, _)
AtanhSeries(y2, term, n, acc) ==
    IF n > 17 \/ term = 0 THEN acc
    ELSE AtanhSeries(y2, Mul(term, y2), n + 2, acc + MulDiv(term, 1, n))

\* <<m, k>> with v = m * 2^k and 1.0 <= m < 2.0, for v > 0
RECURSIVE Frexp(_, _)
Frexp(v, k) ==
    IF v >= 2 * Scale THEN Frexp((v + 1) \div 2, k + 1)
    ELSE IF v < Scale THEN Frexp(2 * v, k - 1)
    ELSE <<v, k>>

\* natural logarithm of an Fx v > 0
Ln(v) ==
    With(Frexp(v, 0), LAMBDA f :
    With(MulDiv(f[1] - Scale, Scale, f[1] + Scale), LAMBDA y :
    2 * AtanhSeries(Mul(y, y), y, 1, 0) + KLn2(f[2])))

RECURSIVE ExpSeries(_, _, _, _)
ExpSeries(r, term, n, acc) ==
    IF n > 14 \/ term = 0 THEN acc
    ELSE ExpSeries(r, MulDiv(term, r, n * Scale), n + 1, acc + term)

RECURSIVE Ldexp(_, _)
Ldexp(v, k) ==
    IF k = 0 \/ v = 0 THEN v
    ELSE IF k > 0 THEN (IF v >= Cap THEN Cap ELSE Ldexp(2 * v, k - 1))
    ELSE Ldexp((v + 1) \div 2, k + 1)

\* e^x as an Fx, saturating at Cap
Exp(x) ==
    IF x > 7 * Scale THEN Cap
    ELSE IF x < -20 * Scale THEN 0
    ELSE With(MulDiv(x, 1, 693147), LAMBDA k :
         Ldexp(ExpSeries(x - KLn2(k), Scale, 1, 0), k))

\* a ** b for floats a > 0
Pow(a, b) == Exp(Mul(b, Ln(a)))

---------------------------------------------------------------------------
(* Results and exceptions *)

Ok(v) == [exc |-> "none", v |-> v]

Raise(e) == [exc |-> e, v |-> 0]

\* name = <call r>; F(name): an exception raised by the call propagates.
Try(r, F(_)) == IF r.exc # "none" THEN r ELSE F(r.v)

---------------------------------------------------------------------------
(* Floats carried by sign and logarithm *)

\* ln 10
LN10 == 2302585

\* math.exp / math.pow raise OverflowError above ln(1.797e308) and return
\* 0.0 below ln(4.94e-324).
LnMaxFloat == 709782712

LnMinFloat == -745133219

LgZero == [s |-> 0, l |-> 0]

\* The float written m * 10^e in decimal, m an Fx with 1.0 <= |m| < 10.0
\* or m = 0.
Dec(m, e) == IF m = 0 THEN LgZero ELSE [s |-> Sgn(m), l |-> Ln(Abs(m)) + e * LN10]

\* A product or quotient of magnitude e^l: 0.0 on underflow.  A result
\* above the largest float (inf) is held at the largest float; no input
\* of the model produces one.
LgNorm(s, l) == IF l < LnMinFloat THEN LgZero ELSE [s |-> s, l |-> Min(l, LnMaxFloat)]

LgMul(a, b) == IF a.s = 0 \/ b.s = 0 THEN LgZero ELSE LgNorm(a.s * b.s, a.l + b.l)

\* a / b for b # 0.0
LgDiv(a, b) == IF a.s = 0 THEN LgZero ELSE LgNorm(a.s * b.s, a.l - b.l)

\* The value of an Lg float as an Fx (saturating).
ToFx(a) == a.s * Exp(a.l)

\* math.pow(math.e, x)
MathPowE(x) ==
    IF x > LnMaxFloat THEN Raise("OverflowError")
    ELSE IF x < LnMinFloat THEN Ok(LgZero)
    ELSE Ok([s |-> 1, l |-> x])

\* math.log(a)
MathLog(a) == IF a.s <= 0 THEN Raise("ValueError") ELSE Ok(a.l)

\* math.log10(a)
MathLog10(a) == IF a.s <= 0 THEN Raise("ValueError") ELSE Ok(MulDiv(a.l, Scale, LN10))

---------------------------------------------------------------------------
(* dewpoint.py: Magnus parameters *)

alpha == 6112000

beta == 17620000

lambda_ == 243120000

t_low == -45000000

t_high == 60000000

alphaLg == Dec(alpha, 0)

\* the literal 100 as a factor or divisor of a humidity or pressure
hundred == Dec(Scale, 2)

\* (beta * temperature) / (lambda_ + temperature)
MagnusExponent(temperature_) ==
    IF lambda_ + temperature_ = 0 THEN Raise("ZeroDivisionError")
    ELSE Ok(MulDiv(beta, temperature_, lambda_ + temperature_))

saturation_vapour_pressure(temperature_) ==
    Try(MagnusExponent(temperature_), LAMBDA x :
    Try(MathPowE(x), LAMBDA p :
    Ok(LgMul(alphaLg, p))))

vapour_pressure(temperature_, relative_humidity_) ==
    Try(saturation_vapour_pressure(temperature_), LAMBDA svp :
    Ok(LgDiv(LgMul(relative_humidity_, svp), hundred)))

\* lambda_ * z / (beta - z)
MagnusInverse(z) ==
    IF beta - z = 0 THEN Raise("ZeroDivisionError")
    ELSE Ok(MulDiv(lambda_, z, beta - z))

dewpoint_1(temperature_, relative_humidity_) ==
    Try(vapour_pressure(temperature_, relative_humidity_), LAMBDA vp :
    Try(MathLog(LgDiv(vp, alphaLg)), LAMBDA lg :
    MagnusInverse(lg)))

dewpoint_2(temperature_, relative_humidity_) ==
    Try(MathLog(LgDiv(relative_humidity_, hundred)), LAMBDA lg :
    Try(MagnusExponent(temperature_), LAMBDA x :
    MagnusInverse(lg + x)))

dewpoint_3(t, rh) ==
    Try(MathLog10(rh), LAMBDA lg :
    Try(MagnusExponent(t), LAMBDA x :
    MagnusInverse(Div(lg - 2 * Scale, 434300) + x)))

allowed_difference == 1000

\* the assert of dewpoint_all on the three derivations
ConsistencyHolds(dp1, dp2, dp3) ==
    With(Abs(dp2 - dp1), LAMBDA diff1 :
    With(Abs(dp3 - dp1), LAMBDA diff2 :
    diff1 < diff2 /\ diff2 < allowed_difference))

dewpoint_all(t, rh) ==
    Try(dewpoint_1(t, rh), LAMBDA dp1 :
    Try(dewpoint_2(t, rh), LAMBDA dp2 :
    Try(dewpoint_3(t, rh), LAMBDA dp3 :
    IF ~ConsistencyHolds(dp1, dp2, dp3) THEN Raise("AssertionError")
    ELSE Ok(dp1))))

relative_humidity(t, td) ==
    Try(saturation_vapour_pressure(td), LAMBDA num :
    Try(saturation_vapour_pressure(t), LAMBDA den :
    IF den.s = 0 THEN Raise("ZeroDivisionError")
    ELSE Ok(LgDiv(num, den))))

temperature(td, rh) ==
    With(LgDiv(rh, hundred), LAMBDA rhd :
    Try(saturation_vapour_pressure(td), LAMBDA svp :
    IF rhd.s = 0 THEN Raise("ZeroDivisionError")
    ELSE Try(MathLog(LgDiv(LgDiv(svp, rhd), alphaLg)), LAMBDA lg :
         MagnusInverse(lg))))

---------------------------------------------------------------------------
(* Inputs *)

MaxTempSteps == 21

TempStep == 5 * Scale

\* Temperatures in degrees C: the validated range [-45, 60] in steps of 5
\* (and on beyond 60 when the bound grows), the values of test_dewpoint.py,
\* absolute zero, and the pole of the Magnus formula at -lambda_ with a
\* neighbour on either side.
TempInputs ==
    {t_low + k * TempStep : k \in 0..MaxTempSteps}
        \cup {-273150000, -260000000, -243130000, -243120000, -243110000,
              1000000, 25140000, 100000000}

MaxRhDecade == 2

\* Relative humidities in percent, as decimal literals <<mantissa, exponent>>:
\* -1, 0, 1e-200, 0.1, 32, 50 and the powers of ten 1, 10, 100.
RhLiterals ==
    {<<Scale, e>> : e \in 0..MaxRhDecade}
        \cup {<<-Scale, 0>>, <<0, 0>>, <<Scale, -200>>, <<Scale, -1>>,
              <<3200000, 1>>, <<5000000, 1>>}

RhInputs == {Dec(d[1], d[2]) : d \in RhLiterals}

\* 0 < rh <= 100
RhInDomain(rh) == rh.s = 1 /\ rh.l <= hundred.l

Pending == [exc |-> "pending", v |-> 0]

Idle == [pc |-> "idle"]

---------------------------------------------------------------------------
(* The library as test_dewpoint.py drives it: saturation_vapour_pressure,  *)
(* then dewpoint_all statement by statement, then the two inverse entry    *)
(* points on the dew point it returned.                                    *)

InitDew ==
    /\ dew \in [pc : {"svp"}, t : TempInputs, rh : RhInputs, svp : {Pending},
                dp1 : {Pending}, dp2 : {Pending}, dp3 : {Pending},
                checked : {FALSE}, out : {Pending}, rhd : {Pending},
                tback : {Pending}]
    /\ cli = Idle
    /\ wet = Idle

CallSaturationVapourPressure ==
    /\ dew.pc = "svp"
    /\ dew' = [dew EXCEPT !.svp = saturation_vapour_pressure(dew.t), !.pc = "dp1"]
    /\ UNCHANGED <<cli, wet>>

\* one of the three derivations inside dewpoint_all (lines 67-69)
Derive(field, r, next) ==
    dew' = [dew EXCEPT ![field] = r,
                       !.out = IF r.exc = "none" THEN @ ELSE r,
                       !.pc = IF r.exc = "none" THEN next ELSE "raised"]

CallDewpoint1 ==
    /\ dew.pc = "dp1"
    /\ Derive("dp1", dewpoint_1(dew.t, dew.rh), "dp2")
    /\ UNCHANGED <<cli, wet>>

CallDewpoint2 ==
    /\ dew.pc = "dp2"
    /\ Derive("dp2", dewpoint_2(dew.t, dew.rh), "dp3")
    /\ UNCHANGED <<cli, wet>>

CallDewpoint3 ==
    /\ dew.pc = "dp3"
    /\ Derive("dp3", dewpoint_3(dew.t, dew.rh), "check")
    /\ UNCHANGED <<cli, wet>>

\* lines 70-78: the assert, then return dp1
CheckAndReturn ==
    /\ dew.pc = "check"
    /\ dew' = IF ConsistencyHolds(dew.dp1.v, dew.dp2.v, dew.dp3.v)
              THEN [dew EXCEPT !.checked = TRUE, !.out = dew.dp1, !.pc = "returned"]
              ELSE [dew EXCEPT !.checked = TRUE, !.out = Raise("AssertionError"),
                               !.pc = "raised"]
    /\ UNCHANGED <<cli, wet>>

CallRelativeHumidity ==
    /\ dew.pc = "returned"
    /\ dew' = [dew EXCEPT !.rhd = relative_humidity(dew.t, dew.out.v), !.pc = "temperature"]
    /\ UNCHANGED <<cli, wet>>

CallTemperature ==
    /\ dew.pc = "temperature"
    /\ dew' = [dew EXCEPT !.tback = temperature(dew.out.v, dew.rh), !.pc = "done"]
    /\ UNCHANGED <<cli, wet>>

NextDew ==
    \/ CallSaturationVapourPressure
    \/ CallDewpoint1
    \/ CallDewpoint2
    \/ CallDewpoint3
    \/ CheckAndReturn
    \/ CallRelativeHumidity
    \/ CallTemperature

SpecDew == InitDew /\ [][NextDew]_vars

\* dewpoint_all has returned or raised
DewFinished == dew.pc \in {"returned", "temperature", "done", "raised"}

DewReturned == dew.pc \in {"returned", "temperature", "done"}

\* The statement-by-statement run ends as the operator dewpoint_all does.
StepsAgreeWithDewpointAll == DewFinished => dew.out = dewpoint_all(dew.t, dew.rh)

---------------------------------------------------------------------------
(* Properties of the library *)

PairwiseAgree(dp1, dp2, dp3) ==
    /\ Abs(dp2 - dp1) < allowed_difference
    /\ Abs(dp3 - dp1) < allowed_difference
    /\ Abs(dp3 - dp2) < allowed_difference

\* the three derivations have all been computed and the assert evaluated
DewChecked == dew.pc \in {"returned", "temperature", "done", "raised"} /\ dew.checked

\* C1: for 0 < RH <= 100, dewpoint_all returns dp1 whenever dp1, dp2 and dp3
\* agree pairwise within 0.001 (two of them being equal included), and fails
\* only when dp2 or dp3 differs from dp1 by 0.001 or more.
AgreementReturnsFirstDerivation ==
    (DewChecked /\ RhInDomain(dew.rh)) =>
        /\ PairwiseAgree(dew.dp1.v, dew.dp2.v, dew.dp3.v)
               => (DewReturned /\ dew.out = dew.dp1)
        /\ dew.pc = "raised"
               => (\/ Abs(dew.dp2.v - dew.dp1.v) >= allowed_difference
                   \/ Abs(dew.dp3.v - dew.dp1.v) >= allowed_difference)

\* C2: for RH <= 0 and every T, dewpoint_all ends in an invalid-input error
\* (the nearest the code has is the ValueError of math.log) raised before
\* the consistency check; it never returns.
NonPositiveHumidityIsInvalidInput ==
    (DewFinished /\ dew.rh.s <= 0) =>
        (dew.pc = "raised" /\ ~dew.checked /\ dew.out.exc = "ValueError")

\* relative_humidity(T, Td) * 100 as an Fx
PercentOf(rhd) == ToFx(LgMul(rhd, hundred))

RoundTripTolerance == 200000

\* C3: for 0 < RH <= 100 and T in [-45, 60], dewpoint_all yields a Td with
\* relative_humidity(T, Td) * 100 within 0.2 of RH and temperature(Td, RH)
\* within 0.2 of T.
RoundTripWithinTolerance ==
    (/\ dew.pc \in {"done", "raised"}
     /\ RhInDomain(dew.rh)
     /\ t_low <= dew.t /\ dew.t <= t_high) =>
        /\ dew.pc = "done"
        /\ dew.rhd.exc = "none"
        /\ Abs(PercentOf(dew.rhd.v) - ToFx(dew.rh)) <= RoundTripTolerance
        /\ dew.tback.exc = "none"
        /\ Abs(dew.tback.v - dew.t) <= RoundTripTolerance

\* The part of C3 the code keeps: whenever dewpoint_all returns on such an
\* input, both inverses land within the tolerance.
RoundTripWhenReturned ==
    (/\ dew.pc = "done"
     /\ RhInDomain(dew.rh)
     /\ t_low <= dew.t /\ dew.t <= t_high) =>
        /\ dew.rhd.exc = "none"
        /\ Abs(PercentOf(dew.rhd.v) - ToFx(dew.rh)) <= RoundTripTolerance
        /\ dew.tback.exc = "none"
        /\ Abs(dew.tback.v - dew.t) <= RoundTripTolerance

\* 0 K in degrees C
AbsoluteZero == -273150000

\* C4: for T at or above absolute zero and 0 < RH <= 100, a dew point that
\* dewpoint_all returns is at most T.
DewpointAtMostTemperature ==
    (DewReturned /\ dew.t >= AbsoluteZero /\ RhInDomain(dew.rh)) =>
        dew.out.v <= dew.t

\* C5: saturation_vapour_pressure returns a value for every temperature,
\* at and next to T = -lambda_ included.
SaturationVapourPressureTotal ==
    dew.pc # "svp" => dew.svp.exc = "none"

---------------------------------------------------------------------------
(* dewpoint.py: main(), from line 124 on.  args is what parse_args         *)
(* returned; trace lists, in order, the messages handed to the logger, the *)
(* call of a computation and the print of its result.                      *)

None == [given |-> FALSE, v |-> 0]

NoHumidity == [given |-> FALSE, v |-> LgZero]

Some(v) == [given |-> TRUE, v |-> v]

MaxCliSteps == 5

CliTempStep == 35 * Scale

\* -80, -45, -10, 25, 60, 95 and the pole of the Magnus formula
CliTemperatures ==
    {Some(t_low - CliTempStep + k * CliTempStep) : k \in 0..MaxCliSteps}
        \cup {Some(-lambda_), None}

CliHumidities == {Some(Dec(5000000, 1)), Some(hundred), Some(LgZero), NoHumidity}

CliDewPoints == {Some(10 * Scale), Some(-5 * Scale), None}

NoCall == [fn |-> "none", a |-> 0, b |-> 0]

InitMain ==
    /\ cli \in [pc : {"warn"},
                args : [temperature : CliTemperatures,
                        relative_humidity : CliHumidities,
                        dew_point : CliDewPoints],
                t : CliTemperatures, rh : CliHumidities, td : CliDewPoints,
                trace : {<< >>}, call : {NoCall}, res : {Pending}, status : {-1}]
    /\ cli.t = cli.args.temperature
    /\ cli.rh = cli.args.relative_humidity
    /\ cli.td = cli.args.dew_point
    /\ dew = Idle
    /\ wet = Idle

AlwaysInBounds(t) == TRUE

\* t_low < t < t_high
InBounds(t) == t_low < t /\ t < t_high

\* lines 128-132
MainWarn ==
    /\ cli.pc = "warn"
    /\ cli' = [cli EXCEPT
                 !.trace = IF cli.t.given /\ ~InBounds(cli.t.v)
                           THEN Append(@, "warning") ELSE @,
                 !.pc = "dispatch"]
    /\ UNCHANGED <<dew, wet>>

\* one branch of lines 134-149: log.info, the call, and the print when the
\* call returns; an exception of the call leaves main.
Compute(fn, a, b, r) ==
    [cli EXCEPT !.trace = @ \o (IF r.exc = "none" THEN <<"info", "call", "print">>
                                ELSE <<"info", "call">>),
                !.call = [fn |-> fn, a |-> a, b |-> b],
                !.res = r,
                !.pc = "exit"]

\* lines 134-153
MainDispatch ==
    /\ cli.pc = "dispatch"
    /\ cli' =
         IF cli.t.given /\ cli.rh.given
         THEN Compute("dewpoint_all", cli.t.v, cli.rh.v, dewpoint_all(cli.t.v, cli.rh.v))
         ELSE IF cli.t.given /\ cli.td.given
         THEN Compute("relative_humidity", cli.t.v, cli.td.v,
                      relative_humidity(cli.t.v, cli.td.v))
         ELSE IF cli.rh.given /\ cli.td.given
         THEN With(temperature(cli.td.v, cli.rh.v), LAMBDA r :
              [Compute("temperature", cli.td.v, cli.rh.v, r)
                   EXCEPT !.t = IF r.exc = "none" THEN Some(r.v) ELSE @])
         ELSE [cli EXCEPT !.trace = Append(@, "fatal"), !.res = Ok(0), !.pc = "exit"]
    /\ UNCHANGED <<dew, wet>>

\* lines 156-157: the interpreter ends with status 0 when main returns and
\* with status 1 when an exception leaves it.
MainExit ==
    /\ cli.pc = "exit"
    /\ cli' = [cli EXCEPT !.status = IF cli.res.exc = "none" THEN 0 ELSE 1,
                          !.pc = "done"]
    /\ UNCHANGED <<dew, wet>>

NextMain ==
    \/ MainWarn
    \/ MainDispatch
    \/ MainExit

SpecMain == InitMain /\ [][NextMain]_vars

---------------------------------------------------------------------------
(* Properties of main() *)

Supplied ==
    (IF cli.args.temperature.given THEN 1 ELSE 0)
        + (IF cli.args.relative_humidity.given THEN 1 ELSE 0)
        + (IF cli.args.dew_point.given THEN 1 ELSE 0)

Logged(m) == \E i \in 1..Len(cli.trace) : cli.trace[i] = m

\* C6: with fewer than two of the three quantities supplied the run logs a
\* fatal message, invokes no computation and exits with a non-zero status.
MissingInputFails ==
    (cli.pc = "done" /\ Supplied < 2) =>
        (Logged("fatal") /\ cli.call = NoCall /\ cli.status # 0)

\* The part of C6 the code keeps: the fatal message, and no computation.
MissingInputLogsFatal ==
    (cli.pc \in {"exit", "done"} /\ Supplied < 2) =>
        (Logged("fatal") /\ ~Logged("call") /\ cli.call = NoCall)

\* a supplied temperature outside the closed interval [t_low, t_high]
OutsideValidatedRange ==
    /\ cli.args.temperature.given
    /\ (cli.args.temperature.v < t_low \/ cli.args.temperature.v > t_high)

\* C7: the warning is emitted exactly when the supplied temperature is
\* outside the closed interval [-45, 60]; none at -45 and at 60.
WarningExactlyOutsideClosedRange ==
    (cli.pc # "warn" /\ cli.args.temperature.given) =>
        (Logged("warning") <=> OutsideValidatedRange)

\* C8: in a run with the temperature outside the validated range and at
\* least two quantities supplied, the warning is the first thing logged and
\* the run goes on to invoke the matching computation on the inputs as they
\* were supplied: dewpoint_all(T, RH) when RH is given, relative_humidity(T,
\* Td) when only the dew point is given besides T.
WarningNeverAborts ==
    (OutsideValidatedRange /\ Supplied >= 2) =>
        /\ cli.pc # "warn" => (Len(cli.trace) >= 1 /\ cli.trace[1] = "warning")
        /\ cli.pc = "dispatch" => (cli.trace = <<"warning">> /\ cli.call = NoCall)
        /\ cli.pc \in {"exit", "done"} =>
              /\ Len(cli.trace) >= 3
              /\ cli.trace[2] = "info"
              /\ cli.trace[3] = "call"
              /\ cli.call.a = cli.args.temperature.v
              /\ IF cli.args.relative_humidity.given
                 THEN /\ cli.call.fn = "dewpoint_all"
                      /\ cli.call.b = cli.args.relative_humidity.v
                 ELSE /\ cli.call.fn = "relative_humidity"
                      /\ cli.call.b = cli.args.dew_point.v

\* a run at 95 degrees C that warned, then computed and printed the
\* relative humidity
WarnedRunComputed ==
    /\ cli.pc = "done"
    /\ OutsideValidatedRange
    /\ ~cli.args.relative_humidity.given
    /\ cli.trace = <<"warning", "info", "call", "print">>
    /\ cli.call.fn = "relative_humidity"
    /\ cli.res.exc = "none"
    /\ cli.status = 0

---------------------------------------------------------------------------
(* wetbulb.py: wetbulb_temperature_celsius.  Temperatures, pressures in    *)
(* hPa and the dimensionless quantities are Fx; the exponentials are Lg    *)
(* until a sum or difference needs their value.  ps is a whole number of   *)
(* Pa.                                                                     *)

TEMP_ZEROCELSIUS == 273150000

POISSON_DRY_AIR == 285400

svp1 == 6112000

svp2 == 17670000

svp3 == 29650000

svp4 == 243500000

ep2 == 622000

po == 1000 * Scale

lam == Div(Scale, POISSON_DRY_AIR)

svp1Lg == Dec(svp1, 0)

kelvin2celsius(temperature_) == temperature_ - TEMP_ZEROCELSIUS

\* a / b
FDiv(a, b) == IF b = 0 THEN Raise("ZeroDivisionError") ELSE Ok(Div(a, b))

\* a * b / c
FMulDiv(a, b, c) == IF c = 0 THEN Raise("ZeroDivisionError") ELSE Ok(MulDiv(a, b, c))

\* math.exp(x)
MathExp(x) == MathPowE(x)

\* math.log(v) of an Fx
FLog(v) == IF v <= 0 THEN Raise("ValueError") ELSE Ok(Ln(v))

\* a ** b.  A negative base with a fractional exponent gives a complex
\* number, which the next comparison of the function rejects.
FPow(a, b) ==
    IF a > 0 THEN Ok(Pow(a, b))
    ELSE IF a < 0 THEN Raise("TypeError")
    ELSE IF b > 0 THEN Ok(0)
    ELSE IF b = 0 THEN Ok(Scale)
    ELSE Raise("ZeroDivisionError")

\* svp1 * math.exp(svp2 * tempc / (tempc + svp4)) above freezing, else
\* svp1 * math.exp(22.514 - 6.15e3 / temp): lines 88-91 and 119-122
\* (TE - svp3 is TE - TEMP_ZEROCELSIUS + svp4).
SaturationPressure(temp, denominator) ==
    IF temp > TEMP_ZEROCELSIUS
    THEN Try(FMulDiv(svp2, temp - TEMP_ZEROCELSIUS, denominator), LAMBDA x :
         Try(MathExp(x), LAMBDA ex :
         Ok(LgMul(svp1Lg, ex))))
    ELSE Try(FMulDiv(615 * Scale, 10 * Scale, temp), LAMBDA q :
         Try(MathExp(22514000 - q), LAMBDA ex :
         Ok(LgMul(svp1Lg, ex))))

\* lines 84-86
VapourRatio(tempc_drybulb, tempc_dewpoint) ==
    Try(FMulDiv(svp2, tempc_dewpoint, svp4 + tempc_dewpoint), LAMBDA a :
    Try(MathExp(a), LAMBDA ea :
    Try(FMulDiv(svp2, tempc_drybulb, tempc_drybulb + svp4), LAMBDA b :
    Try(MathExp(b), LAMBDA eb :
    IF eb.s = 0 THEN Raise("ZeroDivisionError") ELSE Ok(LgDiv(ea, eb))))))

\* lines 78-93: the vapour pressure e
VapourPressureOf(temp_drybulb, temp_dewpoint) ==
    Try(VapourRatio(kelvin2celsius(temp_drybulb), kelvin2celsius(temp_dewpoint)),
        LAMBDA U :
    Try(SaturationPressure(temp_drybulb, kelvin2celsius(temp_drybulb) + svp4),
        LAMBDA es :
    Ok(ToFx(LgMul(U, es)))))

\* lines 95-102
LiftedCondensationLevel(temp_drybulb, temp_dewpoint) ==
    Try(FDiv(Scale, temp_dewpoint - 56 * Scale), LAMBDA inv :
    Try(FDiv(temp_drybulb, temp_dewpoint), LAMBDA q :
    Try(FLog(q), LAMBDA lg :
    Try(FDiv(Scale, inv + Div(lg, 800 * Scale)), LAMBDA t :
    Ok(t + 56 * Scale)))))

\* line 103
MixingRatio(e, p) == FMulDiv(ep2, e, p - e)

\* lines 105-112
EquivalentPotential(temp_drybulb, tlcl, r, e, p) ==
    Try(FDiv(po, p - e), LAMBDA q1 :
    Try(FPow(q1, POISSON_DRY_AIR), LAMBDA pw1 :
    Try(FDiv(temp_drybulb, tlcl), LAMBDA q2 :
    Try(FPow(q2, Mul(280000, r)), LAMBDA pw2 :
    Try(FMulDiv(1518 * Scale, 2 * Scale, tlcl), LAMBDA q3 :
    Try(MathExp(Mul(Mul(q3 - 1780000, r), Scale + Mul(448000, r))), LAMBDA ex :
    Ok(Mul(Mul(Mul(temp_drybulb, pw1), pw2), ToFx(ex)))))))))

\* lines 114-116
PressureNondimensional(p) == FPow(Div(p, po), Div(Scale, lam))

\* line 124
SaturationMixingRatio(TE, p) ==
    Try(SaturationPressure(TE, TE - svp3), LAMBDA es_te :
    FMulDiv(ep2, ToFx(es_te), p - ToFx(es_te)))

\* lines 126-128
K1(pi) == Mul(137810000, pi) - Mul(38500000, Mul(pi, pi)) - 53737000

\* lines 129-131
K2(pi) == Mul(56831000, pi) - Mul(4392000, Mul(pi, pi)) - 384000

\* line 133
Cote(TE) == Try(FDiv(TEMP_ZEROCELSIUS, TE), LAMBDA q : FPow(q, lam))

\* line 134
DPi(pi) == FDiv(Scale, MulDiv(185900, pi, po) + 651200)

\* the guards of lines 136, 141, 143 and 145
Band1(cote, D_pi) == cote > D_pi

BoundaryOpenBand2(cote, D_pi) == cote > Scale /\ cote <= D_pi

Band2(cote, D_pi) == cote >= Scale /\ cote <= D_pi

Band3(cote, D_pi) == cote >= 400000 /\ cote < Scale

Band4(cote, D_pi) == cote < 400000

\* line 137: the quotient is formed, then float ^ int is not defined; the
\* assignment of lines 138-140 is never reached.
Equation48(TE) ==
    IF TE - TEMP_ZEROCELSIUS + svp4 = 0 THEN Raise("ZeroDivisionError")
    ELSE Raise("TypeError")

\* line 142
Equation49(k1_pi, k2_pi, cote) == Ok(k1_pi - Mul(k2_pi, cote))

\* line 144
Equation410(k1_pi, k2_pi, cote) ==
    Ok((k1_pi - 1210000) - Mul(k2_pi - 1210000, cote))

\* line 146
Equation411(k1_pi, k2_pi, cote) ==
    Try(FDiv(580000, cote), LAMBDA q :
    Ok((k1_pi - 2660000) - Mul(k2_pi - 1210000, cote) + q))

MaxDrybulbSteps == 17

DrybulbStep == 5 * Scale

\* 298.15 K (25 degrees C) downwards in steps of 5 K
DrybulbInputs == {298150000 - k * DrybulbStep : k \in 0..MaxDrybulbSteps}

\* dew point depressions in K
Depressions == {0, 5 * Scale, 20 * Scale}

\* surface pressures in Pa
PressureInputs == {101300, 95000}

\* Very dry air at 1000 hPa, for which TE is the dry-bulb temperature: the
\* three temperatures at which cote is exactly D(pi), 1.0 and 0.4.
BoundaryTemperatures == {241696400, TEMP_ZEROCELSIUS, 354792000}

DryInputs == {[T |-> T, Td |-> 150 * Scale, ps |-> 100000] : T \in BoundaryTemperatures}

WetInputs ==
    {[T |-> T, Td |-> T - d, ps |-> ps] :
        T \in DrybulbInputs, d \in Depressions, ps \in PressureInputs}
        \cup DryInputs

InitWet ==
    /\ \E i \in WetInputs :
          wet = [pc |-> "vapour", temp_drybulb |-> i.T, temp_dewpoint |-> i.Td,
                 ps |-> i.ps, p |-> i.ps * (Scale \div 100), e |-> 0,
                 temp_lifted_condensation_level |-> 0, r |-> 0,
                 temp_equivalent_potential |-> 0, pressure_nondimensional |-> 0,
                 TE |-> 0, rs_te |-> 0, k1_pi |-> 0, k2_pi |-> 0, cote |-> 0,
                 D_pi |-> 0, band |-> 0, assigned |-> 0, tempc_wetbulb |-> 0,
                 out |-> Pending]
    /\ dew = Idle
    /\ cli = Idle

\* the statements r has evaluated: on an exception the function is left
WetStep(r, updated) ==
    wet' = IF r.exc = "none" THEN updated
           ELSE [wet EXCEPT !.out = r, !.pc = "raised"]

\* lines 78-93
WetVapourPressure ==
    /\ wet.pc = "vapour"
    /\ With(VapourPressureOf(wet.temp_drybulb, wet.temp_dewpoint), LAMBDA r :
       WetStep(r, [wet EXCEPT !.e = r.v, !.pc = "lcl"]))
    /\ UNCHANGED <<dew, cli>>

\* lines 95-103
WetLiftedCondensationLevel ==
    /\ wet.pc = "lcl"
    /\ With(LiftedCondensationLevel(wet.temp_drybulb, wet.temp_dewpoint), LAMBDA t :
       With(IF t.exc = "none" THEN MixingRatio(wet.e, wet.p) ELSE t, LAMBDA r :
       WetStep(r, [wet EXCEPT !.temp_lifted_condensation_level = t.v,
                              !.r = r.v, !.pc = "theta"])))
    /\ UNCHANGED <<dew, cli>>

\* lines 105-112
WetEquivalentPotential ==
    /\ wet.pc = "theta"
    /\ With(EquivalentPotential(wet.temp_drybulb, wet.temp_lifted_condensation_level,
                                wet.r, wet.e, wet.p), LAMBDA r :
       WetStep(r, [wet EXCEPT !.temp_equivalent_potential = r.v, !.pc = "te"]))
    /\ UNCHANGED <<dew, cli>>

\* lines 114-124
WetEquivalentTemperature ==
    /\ wet.pc = "te"
    /\ With(PressureNondimensional(wet.p), LAMBDA pi :
       With(IF pi.exc = "none"
            THEN SaturationMixingRatio(Mul(wet.temp_equivalent_potential, pi.v), wet.p)
            ELSE pi, LAMBDA r :
       WetStep(r, [wet EXCEPT !.pressure_nondimensional = pi.v,
                              !.TE = Mul(wet.temp_equivalent_potential, pi.v),
                              !.rs_te = r.v, !.pc = "coefficients"])))
    /\ UNCHANGED <<dew, cli>>

\* lines 126-134
WetCoefficients ==
    /\ wet.pc = "coefficients"
    /\ With(Cote(wet.TE), LAMBDA c :
       With(IF c.exc = "none" THEN DPi(wet.pressure_nondimensional) ELSE c, LAMBDA d :
       WetStep(d, [wet EXCEPT !.k1_pi = K1(wet.pressure_nondimensional),
                              !.k2_pi = K2(wet.pressure_nondimensional),
                              !.cote = c.v, !.D_pi = d.v, !.pc = "select"])))
    /\ UNCHANGED <<dew, cli>>

\* one branch of the chain: its band, and the assignment its equation makes
WetAssign(band, r) ==
    IF r.exc = "none"
    THEN [wet EXCEPT !.band = band, !.tempc_wetbulb = r.v,
                     !.assigned = @ + 1, !.pc = "return"]
    ELSE [wet EXCEPT !.band = band, !.out = r, !.pc = "raised"]

\* lines 136-146
WetSelect ==
    /\ wet.pc = "select"
    /\ wet' =
         IF Band1(wet.cote, wet.D_pi)
         THEN WetAssign(1, Equation48(wet.TE))
         ELSE IF Band2(wet.cote, wet.D_pi)
         THEN WetAssign(2, Equation49(wet.k1_pi, wet.k2_pi, wet.cote))
         ELSE IF Band3(wet.cote, wet.D_pi)
         THEN WetAssign(3, Equation410(wet.k1_pi, wet.k2_pi, wet.cote))
         ELSE IF Band4(wet.cote, wet.D_pi)
         THEN WetAssign(4, Equation411(wet.k1_pi, wet.k2_pi, wet.cote))
         ELSE [wet EXCEPT !.pc = "return"]
    /\ UNCHANGED <<dew, cli>>

\* line 148: the name is unbound when no branch assigned it
WetReturn ==
    /\ wet.pc = "return"
    /\ wet' = IF wet.assigned = 0
              THEN [wet EXCEPT !.out = Raise("UnboundLocalError"), !.pc = "raised"]
              ELSE [wet EXCEPT !.out = Ok(wet.tempc_wetbulb), !.pc = "returned"]
    /\ UNCHANGED <<dew, cli>>

NextWet ==
    \/ WetVapourPressure
    \/ WetLiftedCondensationLevel
    \/ WetEquivalentPotential
    \/ WetEquivalentTemperature
    \/ WetCoefficients
    \/ WetSelect
    \/ WetReturn

SpecWet == InitWet /\ [][NextWet]_vars

---------------------------------------------------------------------------
(* Properties of wetbulb_temperature_celsius *)

\* cote and D_pi hold their values of lines 133-134
RegimeInputsKnown == wet.pc \in {"select", "return", "returned"} \/ wet.band # 0

\* C9: every input that selects the regime cote > D(pi) completes it and
\* returns a number (equation 4.8 with the denominator squared).
ColdRegimeReturnsNumber ==
    (wet.pc \in {"raised", "returned"} /\ wet.band = 1) =>
        (wet.pc = "returned" /\ wet.out.exc = "none" /\ wet.assigned = 1)

Bands(cote, D_pi) ==
    {b \in 1..4 : \/ b = 1 /\ Band1(cote, D_pi)
                  \/ b = 2 /\ Band2(cote, D_pi)
                  \/ b = 3 /\ Band3(cote, D_pi)
                  \/ b = 4 /\ Band4(cote, D_pi)}

=============================================================================
